---- MODULE Spec2Model ----
(***************************************************************************)
(* Model of program/func_cointegration.py: the pair screening run of       *)
(* store_cointegration_results and the helpers it calls.                   *)
(*                                                                         *)
(* The statistical library calls (coint, adfuller, OLS, RollingOLS) are    *)
(* inputs of the model: each call returns one result drawn from a small    *)
(* set, and the decision rules the source applies to that result are the   *)
(* operators below.  Numbers are scaled integers: test statistics and      *)
(* critical values in hundredths, p-values and the regression slope beta   *)
(* in thousandths.                                                         *)
(*                                                                         *)
(* Data frames are objects of a heap (frames) named by references, so that *)
(* copying and aliasing are distinguishable.                               *)
(***************************************************************************)
EXTENDS Integers, Sequences, FiniteSets, TLC

VARIABLES
    pc,                         \* position in store_cointegration_results
    frames,                     \* heap of data frames, by object name
    df_market_prices,           \* reference: the caller's price table
    coint_pair_df,              \* reference: the per-pair frame
    hedge_ratio_and_spread_df,  \* reference: result of calculate_hedge_ratio_and_spread
    markets,                    \* line 101: the column list
    index,                      \* outer loop position (0-based)
    quote_index,                \* inner loop position (0-based index into markets)
    base_market,
    quote_market,
    coint_flag,
    stationary_flag,
    beta,                       \* res.params[1] of calculate_half_life, in thousandths
    half_life,
    criteria_met_pairs,
    df_criteria_met,            \* the sorted report frame (rows with their index label)
    cointegrated_pairs_csv,     \* content of the destination file
    returned,                   \* the value returned to the caller, "" before
    exception,                  \* the exception that left the function, "" if none
    input_at_call,              \* history: the input table as it was at the call
    evaluated,                  \* history: the pairs calculate_cointegration ran on
    calls,                      \* history: the stages run on the current pair
    writes                      \* history: number of to_csv calls of this run

vars == << pc, frames, df_market_prices, coint_pair_df, hedge_ratio_and_spread_df,
           markets, index, quote_index, base_market, quote_market, coint_flag,
           stationary_flag, beta, half_life, criteria_met_pairs, df_criteria_met,
           cointegrated_pairs_csv, returned, exception, input_at_call, evaluated,
           calls, writes >>

---------------------------------------------------------------------------
(* Bounds of the model and constants of the program *)

MaxMarkets == 3

WINDOW == 168

HALF_LIFE_MAX == 24

P_VALUE_MAX == 50

LN2_MICRO == 693147

MarketUniverse == << "BTC-USD", "ETH-USD", "SOL-USD", "LINK-USD", "AVAX-USD" >>

\* Lengths of the aligned input series.
SeriesLengths == { 500 }

\* What the destination file holds before the run: the rows an earlier run
\* left there.
EarlierRow == [ index |-> 0, base_market |-> "UNI-USD", quote_market |-> "YFI-USD",
                half_life |-> [ inf |-> FALSE, neg |-> FALSE, mag |-> 3 ] ]

PriorContents == { << EarlierRow >> }

\* Results coint() may return: t statistic, p-value, 5% critical value.
CointResults ==
    [ coint_t : { -400, -334, -300 }, p_value : { 10, 50, 200 }, critical_value : { -334 } ]

\* Results adfuller() may return: test statistic and the 1% critical value.
AdfResults == [ test_statistic : { -500, -345, -200 }, critical_1pct : { -345 } ]

\* Slopes the half-life regression may return (thousandths).
Betas == { -2000, -29, -28, 0, 10, 2000 }

---------------------------------------------------------------------------
(* Data frames *)

Unallocated == [ columns |-> << >>, nrows |-> 0, nans |-> 0 ]

FrameNames == { "input", "pair", "df", "hrs", "dropped" }

\* df.loc[:, cols]  with a list of columns builds a new object holding a copy.
LocListTargetAlias(src) == src

LocListTarget(src) == "pair"

\* df.copy() builds a new object.
CopyTarget(src) == "df"

SelectColumns(f, cols) == [ f EXCEPT !.columns = cols ]

HasColumn(f, c) == \E k \in 1..Len(f.columns) : f.columns[k] = c

\* df[c] = values: adds the column when absent; nans is the number of rows
\* of the frame that hold a missing value.
SetColumn(f, c, nan_count) ==
    [ f EXCEPT !.columns = IF HasColumn(f, c) THEN @ ELSE Append(@, c),
               !.nans = IF nan_count > @ THEN nan_count ELSE @ ]

\* RollingOLS(window=168): the first window-1 parameters are missing.
RollingNans(nrows) == IF nrows < WINDOW - 1 THEN nrows ELSE WINDOW - 1

\* df.dropna(): a new frame without the rows that hold a missing value.
DropNaFrame(f) == [ f EXCEPT !.nrows = @ - f.nans, !.nans = 0 ]

---------------------------------------------------------------------------
(* Half-life values: numpy floats rounded to 0 digits.  A value is +-inf,  *)
(* or an integer with a sign; -0.0 is neg with mag 0.                      *)

Abs(x) == IF x < 0 THEN -x ELSE x

HalfLifeValue(h) == IF h.neg THEN -h.mag ELSE h.mag

\* h < c and h > c as IEEE comparisons with an integer c.
LessThan(h, c) == IF h.inf THEN h.neg ELSE HalfLifeValue(h) < c

GreaterThan(h, c) == IF h.inf THEN ~h.neg ELSE HalfLifeValue(h) > c

\* round(): half to even, on a non-negative quotient num/den.
RoundHalfEven(num, den) ==
    LET q == num \div den
        r == num % den
    IN  IF 2 * r < den THEN q
        ELSE IF 2 * r > den THEN q + 1
        ELSE IF q % 2 = 0 THEN q ELSE q + 1

\* line 24: round(-np.log(2) / res.params[1], 0) for a slope b (thousandths).
calculate_half_life(b) ==
    IF b = 0
    THEN [ inf |-> TRUE, neg |-> TRUE, mag |-> 0 ]
    ELSE [ inf |-> FALSE, neg |-> b > 0, mag |-> RoundHalfEven(LN2_MICRO, 1000 * Abs(b)) ]

\* lines 36-43
test_for_stationarity(result) == result.test_statistic < result.critical_1pct

\* lines 64-70
calculate_cointegration(coint_res) ==
    IF coint_res.p_value < P_VALUE_MAX /\ coint_res.coint_t < coint_res.critical_value
    THEN 1 ELSE 0

\* line 116: if coint_flag != 1: continue
CointegrationRejectsNever(flag) == FALSE

CointegrationRejects(flag) == flag # 1

\* line 134: if not stationary_flag: continue
StationarityRejectsNever(flag) == FALSE

StationarityRejects(flag) == ~flag

\* line 140: if half_life < 0 or half_life > 24: continue
HalfLifeRejectsExclusive(h) == ~GreaterThan(h, 0) \/ GreaterThan(h, HALF_LIFE_MAX)

HalfLifeRejects(h) == LessThan(h, 0) \/ GreaterThan(h, HALF_LIFE_MAX)

---------------------------------------------------------------------------
(* The double loop of lines 106 and 110 *)

\* First quote position of the inner loop for base position i: markets[index + 1:]
FirstQuoteFromBase(i) == i

FirstQuote(i) == i + 1

\* The loops have another pair to visit after (i, j); j = i is the state
\* before the inner loop of base i has started.
HasNextPair(n, i, j) == i <= n - 2 /\ (j + 1 <= n - 1 \/ i + 1 <= n - 2)

NextPair(n, i, j) ==
    IF j = i THEN << i, FirstQuote(i) >>
    ELSE IF j + 1 <= n - 1 THEN << i, j + 1 >>
    ELSE << i + 1, FirstQuote(i + 1) >>

---------------------------------------------------------------------------
(* sort_values(by="half_life") with the default kind, quicksort, which is  *)
(* not a stable sort: any arrangement in key order may result.             *)

KeyBefore(a, b) ==
    IF a.inf THEN (a.neg \/ (b.inf /\ ~b.neg))
    ELSE IF b.inf THEN ~b.neg
    ELSE HalfLifeValue(a) <= HalfLifeValue(b)

InSortOrderDescending(a, b) == KeyBefore(b, a)

InSortOrder(a, b) == KeyBefore(a, b)

IndexedRows(rows) ==
    [ k \in 1..Len(rows) |->
        [ index |-> k - 1, base_market |-> rows[k].base_market,
          quote_market |-> rows[k].quote_market, half_life |-> rows[k].half_life ] ]

RECURSIVE Arrangements(_, _)
Arrangements(rows, S) ==
    IF S = {} THEN { << >> }
    ELSE UNION { { << rows[k] >> \o t : t \in Arrangements(rows, S \ {k}) } :
                 k \in { m \in S : \A o \in S :
                           InSortOrder(rows[m].half_life, rows[o].half_life) } }

SortValuesResults(rows) == Arrangements(IndexedRows(rows), 1..Len(rows))

\* to_csv(path): the default mode "w" replaces the file.
ToCsv(old, rows) == rows

---------------------------------------------------------------------------
(* Initial states: the call store_cointegration_results(df_market_prices)  *)

Init ==
    /\ pc = "init"
    /\ \E n \in 0..MaxMarkets, len \in SeriesLengths :
          /\ frames = [ f \in FrameNames |->
                          IF f = "input"
                          THEN [ columns |-> SubSeq(MarketUniverse, 1, n),
                                 nrows |-> len, nans |-> 0 ]
                          ELSE Unallocated ]
          /\ input_at_call = [ columns |-> SubSeq(MarketUniverse, 1, n),
                               nrows |-> len, nans |-> 0 ]
    /\ df_market_prices = "input"
    /\ coint_pair_df = "pair"
    /\ hedge_ratio_and_spread_df = "hrs"
    /\ markets = << >>
    /\ index = 0
    /\ quote_index = 0
    /\ base_market = ""
    /\ quote_market = ""
    /\ coint_flag = 0
    /\ stationary_flag = FALSE
    /\ beta = 0
    /\ half_life = [ inf |-> FALSE, neg |-> FALSE, mag |-> 0 ]
    /\ criteria_met_pairs = << >>
    /\ df_criteria_met = << >>
    /\ cointegrated_pairs_csv \in PriorContents
    /\ returned = ""
    /\ exception = ""
    /\ evaluated = << >>
    /\ calls = << >>
    /\ writes = 0

---------------------------------------------------------------------------
(* Actions *)

\* lines 101-102
Initialize ==
    /\ pc = "init"
    /\ markets' = frames[df_market_prices].columns
    /\ criteria_met_pairs' = << >>
    /\ pc' = "loop"
    /\ UNCHANGED << frames, df_market_prices, coint_pair_df, hedge_ratio_and_spread_df,
                    index, quote_index, base_market, quote_market, coint_flag,
                    stationary_flag, beta, half_life, df_criteria_met,
                    cointegrated_pairs_csv, returned, exception, input_at_call,
                    evaluated, calls, writes >>

\* lines 106-111: the loops step to the next (base, quote) pair.  The frames
\* and values of the previous pair are dead from here on.
EnumeratePair ==
    /\ pc = "loop"
    /\ HasNextPair(Len(markets), index, quote_index)
    /\ LET p == NextPair(Len(markets), index, quote_index)
       IN  /\ index' = p[1]
           /\ quote_index' = p[2]
           /\ base_market' = markets[p[1] + 1]
           /\ quote_market' = markets[p[2] + 1]
    /\ frames' = [ f \in FrameNames |->
                     IF f = df_market_prices THEN frames[f] ELSE Unallocated ]
    /\ coint_pair_df' = "pair"
    /\ coint_flag' = 0
    /\ stationary_flag' = FALSE
    /\ beta' = 0
    /\ half_life' = [ inf |-> FALSE, neg |-> FALSE, mag |-> 0 ]
    /\ calls' = << >>
    /\ pc' = "coint"
    /\ UNCHANGED << df_market_prices, hedge_ratio_and_spread_df, markets,
                    criteria_met_pairs, df_criteria_met, cointegrated_pairs_csv,
                    returned, exception, input_at_call, evaluated, writes >>

\* line 114 with lines 58-70, and the test of line 116
CalculateCointegration ==
    /\ pc = "coint"
    /\ \E coint_res \in CointResults :
          /\ coint_flag' = calculate_cointegration(coint_res)
          /\ pc' = IF CointegrationRejects(calculate_cointegration(coint_res))
                   THEN "loop" ELSE "loc"
    /\ evaluated' = Append(evaluated,
                           [ base |-> index, quote |-> quote_index,
                             base_market |-> base_market, quote_market |-> quote_market,
                             passed |-> IF coint_flag' = 1 THEN { "cointegration" } ELSE {} ])
    /\ calls' = Append(calls, "cointegration")
    /\ UNCHANGED << frames, df_market_prices, coint_pair_df, hedge_ratio_and_spread_df,
                    markets, index, quote_index, base_market, quote_market,
                    stationary_flag, beta, half_life, criteria_met_pairs,
                    df_criteria_met, cointegrated_pairs_csv, returned, exception,
                    input_at_call, writes >>

\* line 119
SelectPairColumns ==
    /\ pc = "loc"
    /\ LET target == LocListTarget(df_market_prices)
       IN  /\ coint_pair_df' = target
           /\ frames' = [ frames EXCEPT ![target] =
                            IF target = df_market_prices THEN @
                            ELSE SelectColumns(frames[df_market_prices],
                                               << base_market, quote_market >>) ]
    /\ pc' = "hedge"
    /\ UNCHANGED << df_market_prices, hedge_ratio_and_spread_df, markets, index,
                    quote_index, base_market, quote_market, coint_flag, stationary_flag,
                    beta, half_life, criteria_met_pairs, df_criteria_met,
                    cointegrated_pairs_csv, returned, exception, input_at_call,
                    evaluated, calls, writes >>

\* lines 122-128 with lines 74-95: the function works on df, a copy of its
\* argument, and returns a new frame of the two computed columns, which
\* the caller then assigns into coint_pair_df.
CalculateHedgeRatioAndSpread ==
    /\ pc = "hedge"
    /\ LET df == CopyTarget(coint_pair_df)
           copied == [ frames EXCEPT ![df] = frames[coint_pair_df] ]
           nan_count == RollingNans(copied[df].nrows)
           computed == [ copied EXCEPT ![df] =
                           SetColumn(SetColumn(@, "hedge_ratio", nan_count),
                                     "spread", nan_count) ]
           result == [ computed EXCEPT !["hrs"] =
                         SelectColumns(computed[df], << "hedge_ratio", "spread" >>) ]
       IN  frames' = [ result EXCEPT ![coint_pair_df] =
                         SetColumn(SetColumn(@, "hedge_ratio", result["hrs"].nans),
                                   "spread", result["hrs"].nans) ]
    /\ hedge_ratio_and_spread_df' = "hrs"
    /\ calls' = Append(calls, "hedge_ratio_and_spread")
    /\ pc' = "dropna"
    /\ UNCHANGED << df_market_prices, coint_pair_df, markets, index, quote_index,
                    base_market, quote_market, coint_flag, stationary_flag, beta,
                    half_life, criteria_met_pairs, df_criteria_met,
                    cointegrated_pairs_csv, returned, exception, input_at_call,
                    evaluated, writes >>

\* line 131: coint_pair_df is rebound to the new frame dropna() returns
DropNa ==
    /\ pc = "dropna"
    /\ frames' = [ frames EXCEPT !["dropped"] = DropNaFrame(frames[coint_pair_df]) ]
    /\ coint_pair_df' = "dropped"
    /\ calls' = Append(calls, "dropna")
    /\ pc' = "stationarity"
    /\ UNCHANGED << df_market_prices, hedge_ratio_and_spread_df, markets, index,
                    quote_index, base_market, quote_market, coint_flag, stationary_flag,
                    beta, half_life, criteria_met_pairs, df_criteria_met,
                    cointegrated_pairs_csv, returned, exception, input_at_call,
                    evaluated, writes >>

SetPassed(ev, filter) ==
    [ ev EXCEPT ![Len(ev)].passed = @ \cup { filter } ]

\* line 132 with lines 29-43, and the test of line 134
TestForStationarity ==
    /\ pc = "stationarity"
    /\ \E result \in AdfResults :
          /\ stationary_flag' = test_for_stationarity(result)
          /\ pc' = IF StationarityRejects(test_for_stationarity(result))
                   THEN "loop" ELSE "half_life"
    /\ evaluated' = IF stationary_flag' THEN SetPassed(evaluated, "stationarity")
                    ELSE evaluated
    /\ calls' = Append(calls, "stationarity")
    /\ UNCHANGED << frames, df_market_prices, coint_pair_df, hedge_ratio_and_spread_df,
                    markets, index, quote_index, base_market, quote_market, coint_flag,
                    beta, half_life, criteria_met_pairs, df_criteria_met,
                    cointegrated_pairs_csv, returned, exception, input_at_call, writes >>

\* line 138 with lines 15-26
CalculateHalfLife ==
    /\ pc = "half_life"
    /\ \E b \in Betas :
          /\ beta' = b
          /\ half_life' = calculate_half_life(b)
    /\ calls' = Append(calls, "half_life")
    /\ pc' = "bounds"
    /\ UNCHANGED << frames, df_market_prices, coint_pair_df, hedge_ratio_and_spread_df,
                    markets, index, quote_index, base_market, quote_market, coint_flag,
                    stationary_flag, criteria_met_pairs, df_criteria_met,
                    cointegrated_pairs_csv, returned, exception, input_at_call,
                    evaluated, writes >>

\* lines 140-150
CheckBoundsAndLogPair ==
    /\ pc = "bounds"
    /\ IF HalfLifeRejects(half_life)
       THEN UNCHANGED << criteria_met_pairs, evaluated >>
       ELSE /\ criteria_met_pairs' =
                 Append(criteria_met_pairs,
                        [ base_market |-> base_market, quote_market |-> quote_market,
                          half_life |-> half_life ])
            /\ evaluated' = SetPassed(evaluated, "half_life")
    /\ calls' = Append(calls, "bounds")
    /\ pc' = "loop"
    /\ UNCHANGED << frames, df_market_prices, coint_pair_df, hedge_ratio_and_spread_df,
                    markets, index, quote_index, base_market, quote_market, coint_flag,
                    stationary_flag, beta, half_life, df_criteria_met,
                    cointegrated_pairs_csv, returned, exception, input_at_call, writes >>

\* lines 153-154: pd.DataFrame([]) has no columns, so sort_values(by="half_life")
\* raises KeyError when no pair was logged; nothing in the function catches it.
CreateAndSortReport ==
    /\ pc = "loop"
    /\ ~HasNextPair(Len(markets), index, quote_index)
    /\ IF criteria_met_pairs = << >>
       THEN /\ exception' = "KeyError"
            /\ pc' = "raised"
            /\ UNCHANGED df_criteria_met
       ELSE /\ df_criteria_met' \in SortValuesResults(criteria_met_pairs)
            /\ pc' = "to_csv"
            /\ UNCHANGED exception
    /\ UNCHANGED << frames, df_market_prices, coint_pair_df, hedge_ratio_and_spread_df,
                    markets, index, quote_index, base_market, quote_market, coint_flag,
                    stationary_flag, beta, half_life, criteria_met_pairs,
                    cointegrated_pairs_csv, returned, input_at_call, evaluated,
                    calls, writes >>

\* line 155
SaveCsv ==
    /\ pc = "to_csv"
    /\ cointegrated_pairs_csv' = ToCsv(cointegrated_pairs_csv, df_criteria_met)
    /\ writes' = writes + 1
    /\ pc' = "return"
    /\ UNCHANGED << frames, df_market_prices, coint_pair_df, hedge_ratio_and_spread_df,
                    markets, index, quote_index, base_market, quote_market, coint_flag,
                    stationary_flag, beta, half_life, criteria_met_pairs,
                    df_criteria_met, returned, exception, input_at_call, evaluated,
                    calls >>

\* lines 157-161
ReturnSaved ==
    /\ pc = "return"
    /\ returned' = "saved"
    /\ pc' = "done"
    /\ UNCHANGED << frames, df_market_prices, coint_pair_df, hedge_ratio_and_spread_df,
                    markets, index, quote_index, base_market, quote_market, coint_flag,
                    stationary_flag, beta, half_life, criteria_met_pairs,
                    df_criteria_met, cointegrated_pairs_csv, exception, input_at_call,
                    evaluated, calls, writes >>

\* A library call of one pair's evaluation raises (coint, RollingOLS,
\* adfuller and OLS raise on short, constant or non-numeric series).  No
\* statement of lines 106-150 is inside a try block: the exception leaves
\* store_cointegration_results.
StageRaises ==
    /\ pc \in { "coint", "hedge", "stationarity", "half_life" }
    /\ exception' = "ValueError"
    /\ pc' = "raised"
    /\ calls' = Append(calls, "raise")
    /\ UNCHANGED << frames, df_market_prices, coint_pair_df, hedge_ratio_and_spread_df,
                    markets, index, quote_index, base_market, quote_market, coint_flag,
                    stationary_flag, beta, half_life, criteria_met_pairs,
                    df_criteria_met, cointegrated_pairs_csv, returned, input_at_call,
                    evaluated, writes >>

Next ==
    \/ Initialize
    \/ EnumeratePair
    \/ CalculateCointegration
    \/ SelectPairColumns
    \/ CalculateHedgeRatioAndSpread
    \/ DropNa
    \/ TestForStationarity
    \/ CalculateHalfLife
    \/ CheckBoundsAndLogPair
    \/ CreateAndSortReport
    \/ SaveCsv
    \/ ReturnSaved

\* The run on series every library call accepts.
Spec == Init /\ [][Next]_vars

NextWithErrors == Next \/ StageRaises

\* The run on any series: a library call may raise.
SpecWithErrors == Init /\ [][NextWithErrors]_vars

---------------------------------------------------------------------------
(* Properties *)

Choose2(n) == (n * (n - 1)) \div 2

\* The double loop has run to its end.
LoopFinished ==
    \/ pc \in { "to_csv", "return", "done" }
    \/ pc = "raised" /\ exception = "KeyError"

\* The call has ended, by a return or by an exception.
RunEnded == pc \in { "done", "raised" }

LastCall == IF calls = << >> THEN "" ELSE calls[Len(calls)]

CurrentPairLogged ==
    \E k \in 1..Len(criteria_met_pairs) :
        /\ criteria_met_pairs[k].base_market = base_market
        /\ criteria_met_pairs[k].quote_market = quote_market

WithinBounds(h) == ~h.inf /\ HalfLifeValue(h) >= 0 /\ HalfLifeValue(h) <= 24

AllFilters == { "cointegration", "stationarity", "half_life" }

StageOrder == << "cointegration", "hedge_ratio_and_spread", "dropna",
                 "stationarity", "half_life", "bounds" >>

\* C1: the cointegration check runs on every unordered pair of distinct
\* columns exactly once, the earlier column as base, in the order i from 0
\* to n-2, j from i+1 to n-1; when the loops end it has run on exactly
\* C(n,2) pairs.
C1_EveryPairOnceEarlierAsBase ==
    LET n == Len(input_at_call.columns)
    IN  /\ \A k \in 1..Len(evaluated) :
              /\ 0 <= evaluated[k].base
              /\ evaluated[k].base < evaluated[k].quote
              /\ evaluated[k].quote <= n - 1
              /\ evaluated[k].base_market = input_at_call.columns[evaluated[k].base + 1]
              /\ evaluated[k].quote_market = input_at_call.columns[evaluated[k].quote + 1]
        /\ \A k, l \in 1..Len(evaluated) :
              k < l => \/ evaluated[k].base < evaluated[l].base
                       \/ /\ evaluated[k].base = evaluated[l].base
                          /\ evaluated[k].quote < evaluated[l].quote
        /\ LoopFinished =>
              /\ Len(evaluated) = Choose2(n)
              /\ \A i, j \in 0..(n - 1) :
                    i < j => \E k \in 1..Len(evaluated) :
                                evaluated[k].base = i /\ evaluated[k].quote = j

C1_Witness ==
    /\ pc = "done"
    /\ Len(input_at_call.columns) = 3
    /\ Len(evaluated) = 3

\* C2: the stages of a pair run in the order cointegration, hedge ratio and
\* spread, drop missing rows, stationarity, half-life, bounds; a pair whose
\* cointegration flag is not 1 reaches no later stage, and a pair whose
\* spread is not stationary reaches neither half-life nor bounds.
C2_StagesInOrderStopAtFirstFailure ==
    /\ Len(calls) <= Len(StageOrder)
    /\ \A k \in 1..Len(calls) : calls[k] = StageOrder[k]
    /\ (Len(calls) >= 1 /\ coint_flag # 1) => calls = << "cointegration" >>
    /\ (Len(calls) >= 4 /\ ~stationary_flag) => Len(calls) = 4
    /\ pc \in { "loc", "hedge" } => calls = << "cointegration" >> /\ coint_flag = 1
    /\ pc = "half_life" => Len(calls) = 4 /\ stationary_flag

C2_Witness ==
    /\ pc = "loop"
    /\ Len(calls) = 4
    /\ ~stationary_flag
    /\ Len(evaluated) = 3
    /\ evaluated[1].passed = {}
    /\ evaluated[2].passed = AllFilters

\* C3: every entry of criteria_met_pairs is for a pair evaluated in this
\* run that passed the cointegration, stationarity and half-life filters,
\* its half-life within the bounds; a pair that failed a filter has no
\* entry; no pair has two entries.
C3_ReportOnlyPairsPassingAllFilters ==
    /\ \A k \in 1..Len(criteria_met_pairs) :
          /\ WithinBounds(criteria_met_pairs[k].half_life)
          /\ \E e \in 1..Len(evaluated) :
                /\ evaluated[e].base_market = criteria_met_pairs[k].base_market
                /\ evaluated[e].quote_market = criteria_met_pairs[k].quote_market
                /\ evaluated[e].passed = AllFilters
    /\ \A e \in 1..Len(evaluated) :
          evaluated[e].passed # AllFilters =>
              ~ \E k \in 1..Len(criteria_met_pairs) :
                    /\ evaluated[e].base_market = criteria_met_pairs[k].base_market
                    /\ evaluated[e].quote_market = criteria_met_pairs[k].quote_market
    /\ \A k, l \in 1..Len(criteria_met_pairs) :
          (/\ criteria_met_pairs[k].base_market = criteria_met_pairs[l].base_market
           /\ criteria_met_pairs[k].quote_market = criteria_met_pairs[l].quote_market)
          => k = l

C3_Witness ==
    /\ pc = "done"
    /\ Len(criteria_met_pairs) = 1
    /\ Len(evaluated) = 3
    /\ \E e \in 1..3 : evaluated[e].passed = {}
    /\ \E e \in 1..3 : evaluated[e].passed = { "cointegration" }

\* The rows handed to the sink are the logged pairs, each once, under the
\* index label of its position in criteria_met_pairs.
ReportIsTheLoggedPairs(rows) ==
    /\ Len(rows) = Len(criteria_met_pairs)
    /\ \A k \in 1..Len(rows) :
          /\ rows[k].index \in 0..(Len(criteria_met_pairs) - 1)
          /\ rows[k].base_market = criteria_met_pairs[rows[k].index + 1].base_market
          /\ rows[k].quote_market = criteria_met_pairs[rows[k].index + 1].quote_market
          /\ rows[k].half_life = criteria_met_pairs[rows[k].index + 1].half_life
    /\ \A k, l \in 1..Len(rows) : rows[k].index = rows[l].index => k = l

AscendingByHalfLife(rows) ==
    \A k, l \in 1..Len(rows) :
        k < l => HalfLifeValue(rows[k].half_life) <= HalfLifeValue(rows[l].half_life)

TiesInEnumerationOrder(rows) ==
    \A k, l \in 1..Len(rows) :
        (k < l /\ HalfLifeValue(rows[k].half_life) = HalfLifeValue(rows[l].half_life))
        => rows[k].index < rows[l].index

C5_StageErrorNeverAbortsRun ==
    LastCall = "raise" => pc # "raised"

\* C6: in every run the report is handed to the sink exactly once, only
\* after every pair has been evaluated; the write replaces the previous
\* content, so that after the run the destination holds the rows of this
\* run and no others; the completion signal comes only after the write.
C6_WrittenOnceAfterAllPairsReplacing ==
    /\ writes <= 1
    /\ writes > 0 => Len(evaluated) = Choose2(Len(markets))
    /\ returned = "saved" => writes = 1
    /\ (RunEnded /\ evaluated # << >>) =>
          /\ writes = 1
          /\ ReportIsTheLoggedPairs(cointegrated_pairs_csv)

\* C7: when pairs were evaluated and none passed all filters, the run ends
\* successfully: the empty report is sorted and handed to the sink, and the
\* completion signal is returned.
C7_EmptyReportRunSucceeds ==
    (RunEnded /\ evaluated # << >> /\ criteria_met_pairs = << >>) =>
        /\ exception = ""
        /\ returned = "saved"
        /\ writes = 1
        /\ cointegrated_pairs_csv = << >>

\* C8: the bounds check logs a pair exactly when 0 <= half_life <= 24, both
\* ends included (-0.0 equals 0), and every half_life of the report lies
\* in [0, 24].
C8_BoundsInclusive ==
    /\ (pc = "loop" /\ LastCall = "bounds") =>
          (CurrentPairLogged <=> WithinBounds(half_life))
    /\ \A k \in 1..Len(criteria_met_pairs) :
          WithinBounds(criteria_met_pairs[k].half_life)

C8_Witness ==
    /\ pc = "loop"
    /\ LastCall = "bounds"
    /\ half_life = [ inf |-> FALSE, neg |-> FALSE, mag |-> 25 ]
    /\ ~CurrentPairLogged
    /\ Len(criteria_met_pairs) = 2
    /\ criteria_met_pairs[1].half_life = [ inf |-> FALSE, neg |-> FALSE, mag |-> 0 ]
    /\ criteria_met_pairs[2].half_life = [ inf |-> FALSE, neg |-> FALSE, mag |-> 24 ]

\* C9: the input table keeps its columns and values through the whole run;
\* hedge_ratio, spread and the row drop go to a per-pair copy, which starts
\* each pair as the two input columns alone.
C9_InputTableReadOnly ==
    /\ df_market_prices = "input"
    /\ frames[df_market_prices] = input_at_call
    /\ pc \in { "hedge", "dropna", "stationarity", "half_life", "bounds" } =>
          coint_pair_df # df_market_prices
    /\ pc = "hedge" =>
          frames[coint_pair_df] =
              [ columns |-> << base_market, quote_market >>,
                nrows |-> input_at_call.nrows, nans |-> 0 ]

C9_Witness ==
    /\ pc = "hedge"
    /\ Len(evaluated) = 3
    /\ evaluated[1].passed = AllFilters
    /\ evaluated[2].passed = { "cointegration" }

\* C10: a pair whose half-life regression slope is not negative is never
\* logged, whatever the slope.
C10_NonNegativeSlopeNeverLogged ==
    (pc = "loop" /\ LastCall = "bounds" /\ beta >= 0) => ~CurrentPairLogged

====
